---- MODULE Spec2Model ----
(***************************************************************************)
(* The Postman collection generator of scripts/postman_generator:          *)
(* EndpointExtractor (endpoint_extractor.py), PostmanCollectionBuilder     *)
(* (collection_builder.py) and the pipeline of generate.py.                *)
(*                                                                         *)
(* A Python str that the code inspects character by character (a file's    *)
(* text, a path, a handler, a display name) is a sequence of one-character *)
(* strings.  A str that the code only passes along (a method, a category   *)
(* name, a constant of the document) is a TLA+ string, and an f-string     *)
(* that joins such parts is the sequence of its parts.                     *)
(***************************************************************************)
EXTENDS Integers, Sequences, FiniteSets, TLC

VARIABLES
    routes_dir,    \* the routes directory: file name -> text of the file
    metadata_file, \* endpoint_metadata.json: handler -> entry, or missing
    listing,       \* the order os.listdir returns the file names in, this run
    endpoints,     \* EndpointExtractor.endpoints
    grouped,       \* the mapping get_grouped_endpoints returned last
    collection,    \* PostmanCollectionBuilder.collection
    metadata,      \* PostmanCollectionBuilder.metadata
    pc,            \* where the caller of the pipeline stands
    builds,        \* how often build was called on this builder
    outputs,       \* the documents save has written, one per finished run
    arg,           \* the argument of the last direct call of a builder method
    ret            \* what that call returned

vars == << routes_dir, metadata_file, listing, endpoints, grouped, collection,
           metadata, pc, builds, outputs, arg, ret >>

(***************************************************************************)
(* Characters and the str methods the code uses.                           *)
(***************************************************************************)
\* the letters str.lower changes, each with its lowercase letter
ToLower ==
    ("A" :> "a") @@ ("B" :> "b") @@ ("C" :> "c") @@ ("D" :> "d") @@ ("E" :> "e") @@
    ("F" :> "f") @@ ("G" :> "g") @@ ("H" :> "h") @@ ("I" :> "i") @@ ("J" :> "j") @@
    ("K" :> "k") @@ ("L" :> "l") @@ ("M" :> "m") @@ ("N" :> "n") @@ ("O" :> "o") @@
    ("P" :> "p") @@ ("Q" :> "q") @@ ("R" :> "r") @@ ("S" :> "s") @@ ("T" :> "t") @@
    ("U" :> "u") @@ ("V" :> "v") @@ ("W" :> "w") @@ ("X" :> "x") @@ ("Y" :> "y") @@
    ("Z" :> "z")

UpperLetters == DOMAIN ToLower

LowerLetters == {ToLower[c] : c \in UpperLetters}

DigitChars == {"0", "1", "2", "3", "4", "5", "6", "7", "8", "9"}

\* str.isupper of one character
IsUpper(c) == c \in UpperLetters

\* str.isspace of one character: what str.strip() removes and \s matches
SpaceChars == {" ", "\t", "\n", "\r"}

IsSpace(c) == c \in SpaceChars

\* the regular expression class \w
WordChars == LowerLetters \cup UpperLetters \cup DigitChars \cup {"_"}

IsWord(c) == c \in WordChars

LowerChar(c) == IF IsUpper(c) THEN ToLower[c] ELSE c

\* str.lower
Lower(s) == [k \in 1..Len(s) |-> LowerChar(s[k])]

\* s[i:].startswith(sub), positions counted from 1
StartsAt(s, sub, i) ==
    /\ i >= 1
    /\ i + Len(sub) - 1 <= Len(s)
    /\ \A k \in 1..Len(sub) : s[i + k - 1] = sub[k]

\* sub in s
Contains(s, sub) == \E i \in 1..(Len(s) - Len(sub) + 1) : StartsAt(s, sub, i)

\* s.startswith(sub), s.endswith(sub)
StartsWith(s, sub) == StartsAt(s, sub, 1)
EndsWith(s, sub) == Len(sub) <= Len(s) /\ StartsAt(s, sub, Len(s) - Len(sub) + 1)

\* s.replace(old, ''): the occurrences of old, left to right, not overlapping
RECURSIVE RemoveFrom(_, _, _)
RemoveFrom(s, old, i) ==
    IF i > Len(s) THEN << >>
    ELSE IF StartsAt(s, old, i) THEN RemoveFrom(s, old, i + Len(old))
    ELSE << s[i] >> \o RemoveFrom(s, old, i + 1)

Remove(s, old) == RemoveFrom(s, old, 1)

\* s.strip(): leading and trailing whitespace removed
Strip(s) ==
    LET keep == {k \in 1..Len(s) : ~IsSpace(s[k])}
    IN  IF keep = {} THEN << >>
        ELSE SubSeq(s, CHOOSE a \in keep : \A k \in keep : a <= k,
                       CHOOSE b \in keep : \A k \in keep : k <= b)

IsSlash(c) == c = "/"

\* s.strip('/'): leading and trailing slashes removed
StripSlashes(s) ==
    LET keep == {k \in 1..Len(s) : ~IsSlash(s[k])}
    IN  IF keep = {} THEN << >>
        ELSE SubSeq(s, CHOOSE a \in keep : \A k \in keep : a <= k,
                       CHOOSE b \in keep : \A k \in keep : k <= b)

\* s.split('/'): the pieces between the slashes, empty pieces kept
RECURSIVE SplitFrom(_, _, _)
SplitFrom(s, i, piece) ==
    IF i > Len(s) THEN << piece >>
    ELSE IF IsSlash(s[i]) THEN << piece >> \o SplitFrom(s, i + 1, << >>)
    ELSE SplitFrom(s, i + 1, Append(piece, s[i]))

Split(s) == SplitFrom(s, 1, << >>)

\* the element of a one-element set
TheOne(S) == CHOOSE x \in S : TRUE

\* the concatenation of a sequence of sequences
RECURSIVE Flatten(_)
Flatten(ss) == IF ss = << >> THEN << >> ELSE Head(ss) \o Flatten(Tail(ss))

(***************************************************************************)
(* EndpointExtractor.extract_from_file: the five patterns                  *)
(*     (\w+)\.VERB\("([^"]+)",\s*(\w+)                                     *)
(* and re.finditer over the text of one file.                              *)
(***************************************************************************)
\* the patterns list, in its order; verb is the only part that differs
patterns ==
    << [verb |-> <<"G", "E", "T">>],
       [verb |-> <<"P", "O", "S", "T">>],
       [verb |-> <<"P", "U", "T">>],
       [verb |-> <<"P", "A", "T", "C", "H">>],
       [verb |-> <<"D", "E", "L", "E", "T", "E">>] >>

\* the least member of a non-empty set of positions
Least(S) == CHOOSE a \in S : \A b \in S : a <= b

\* the first position from i on that does not continue a run of \w
RECURSIVE WordRun(_, _)
WordRun(s, i) == IF i <= Len(s) /\ IsWord(s[i]) THEN WordRun(s, i + 1) ELSE i

\* the first position from i on that does not continue a run of \s
RECURSIVE SpaceRun(_, _)
SpaceRun(s, i) == IF i <= Len(s) /\ IsSpace(s[i]) THEN SpaceRun(s, i + 1) ELSE i

\* the first position from i on that does not continue a run of [^"]
NoQuoteRun(s, i) == Least({j \in i..Len(s) : s[j] = "\""} \cup {Len(s) + 1})

\* The pattern  (\w+) \. VERB \( " ([^"]+) " , \s* (\w+)  tried at position i:
\* the positions where the parts of the match begin and end.  Each greedy run
\* is followed by a character outside its class, so no shorter run can match:
\* the longest runs decide.
Open(p) == << "." >> \o p.verb \o << "(", "\"" >>
G1(s, i) == WordRun(s, i)
P0(s, p, i) == G1(s, i) + Len(Open(p))
P1(s, p, i) == NoQuoteRun(s, P0(s, p, i))
H0(s, p, i) == SpaceRun(s, P1(s, p, i) + 2)
H1(s, p, i) == WordRun(s, H0(s, p, i))

\* whether the pattern matches at position i
MatchAt(s, p, i) ==
    /\ IsWord(s[i])
    /\ LET g1 == G1(s, i)
       IN  /\ StartsAt(s, Open(p), g1)
           /\ LET p0 == g1 + Len(Open(p))
                  p1 == NoQuoteRun(s, p0)
              IN  /\ p1 > p0
                  /\ StartsAt(s, << "\"", "," >>, p1)
                  /\ WordRun(s, SpaceRun(s, p1 + 2)) > SpaceRun(s, p1 + 2)

\* match.group(1), match.group(2), match.group(3) and match.end()
Groups(s, p, i) ==
    [group1 |-> SubSeq(s, i, G1(s, i) - 1),
     group2 |-> SubSeq(s, P0(s, p, i), P1(s, p, i) - 1),
     group3 |-> SubSeq(s, H0(s, p, i), H1(s, p, i) - 1),
     end    |-> H1(s, p, i)]

\* re.finditer(pattern, content): leftmost matches, each search resuming where
\* the match before it ended
RECURSIVE FindIter(_, _, _)
FindIter(s, p, i) ==
    LET starts == {j \in i..Len(s) : MatchAt(s, p, j)}
    IN  IF starts = {} THEN << >>
        ELSE LET m == Groups(s, p, Least(starts))
             IN  << m >> \o FindIter(s, p, m.end)

\* "Determine method from pattern": the chain of 'GET' in pattern, ... tests.
\* Outside the verb the pattern text holds no capital letter.
MethodOf(p) ==
    IF Contains(p.verb, <<"G", "E", "T">>) THEN "GET"
    ELSE IF Contains(p.verb, <<"P", "O", "S", "T">>) THEN "POST"
    ELSE IF Contains(p.verb, <<"P", "U", "T">>) THEN "PUT"
    ELSE IF Contains(p.verb, <<"P", "A", "T", "C", "H">>) THEN "PATCH"
    ELSE IF Contains(p.verb, <<"D", "E", "L", "E", "T", "E">>) THEN "DELETE"
    ELSE "GET"

\* AuthRequired with "and" where the code has "or"
AuthRequired_And(content, group_var) ==
    /\ ~Contains(Lower(content), <<"n", "o", "a", "u", "t", "h">>)
    /\ Contains(Lower(group_var), <<"p", "r", "o", "t", "e", "c", "t", "e", "d">>)

\* "Check if auth is required"
AuthRequired(content, group_var) ==
    \/ ~Contains(Lower(content), <<"n", "o", "a", "u", "t", "h">>)
    \/ Contains(Lower(group_var), <<"p", "r", "o", "t", "e", "c", "t", "e", "d">>)

\* the dataclass Endpoint, as extract_from_file fills it
Endpoint(method, path, handler, auth_required, group) ==
    [method |-> method, path |-> path, handler |-> handler,
     auth_required |-> auth_required, description |-> << >>, group |-> group]

extract_from_file(content) ==
    LET of(p) ==
            LET ms == FindIter(content, p, 1)
            IN  [k \in 1..Len(ms) |->
                    Endpoint(MethodOf(p), ms[k].group2, ms[k].group3,
                             AuthRequired(content, ms[k].group1), ms[k].group1)]
    IN  Flatten([k \in 1..Len(patterns) |-> of(patterns[k])])

(***************************************************************************)
(* EndpointExtractor.get_grouped_endpoints                                 *)
(***************************************************************************)
\* the keys of the groups dict, in the order the dict literal gives them
GroupNames ==
    << "Health", "Authentication", "Onboarding", "Users", "Security", "Wallets", "Funding",
       "Investment", "Portfolio", "Analytics", "Market", "Scheduled Investments",
       "Rebalancing", "Copy Trading", "Roundups", "AI Chat", "News", "Webhooks", "Admin" >>

\* the if/elif chain over the lowercased path, in its order
CategoryRules ==
    << [name |-> "Health",
        subs |-> { <<"/", "h", "e", "a", "l", "t", "h">>, <<"/", "r", "e", "a", "d", "y">>,
                   <<"/", "l", "i", "v", "e">>, <<"/", "v", "e", "r", "s", "i", "o", "n">> }],
       [name |-> "Authentication",
        subs |-> { <<"/", "a", "u", "t", "h">> }],
       [name |-> "Onboarding",
        subs |-> { <<"/", "o", "n", "b", "o", "a", "r", "d", "i", "n", "g">> }],
       [name |-> "Users",
        subs |-> { <<"/", "u", "s", "e", "r", "s">> }],
       [name |-> "Security",
        subs |-> { <<"/", "s", "e", "c", "u", "r", "i", "t", "y">>,
                   <<"/", "p", "a", "s", "s", "c", "o", "d", "e">> }],
       [name |-> "Wallets",
        subs |-> { <<"/", "w", "a", "l", "l", "e", "t">> }],
       [name |-> "Funding",
        subs |-> { <<"/", "f", "u", "n", "d", "i", "n", "g">>,
                   <<"/", "b", "a", "l", "a", "n", "c", "e", "s">> }],
       [name |-> "Investment",
        subs |-> { <<"/", "i", "n", "v", "e", "s", "t", "m", "e", "n", "t">>,
                   <<"/", "o", "r", "d", "e", "r", "s">>,
                   <<"/", "p", "o", "s", "i", "t", "i", "o", "n", "s">> }],
       [name |-> "Portfolio",
        subs |-> { <<"/", "p", "o", "r", "t", "f", "o", "l", "i", "o">> }],
       [name |-> "Analytics",
        subs |-> { <<"/", "a", "n", "a", "l", "y", "t", "i", "c", "s">> }],
       [name |-> "Market",
        subs |-> { <<"/", "m", "a", "r", "k", "e", "t">> }],
       [name |-> "Scheduled Investments",
        subs |-> { <<"/", "s", "c", "h", "e", "d", "u", "l", "e", "d">> }],
       [name |-> "Rebalancing",
        subs |-> { <<"/", "r", "e", "b", "a", "l", "a", "n", "c", "i", "n", "g">> }],
       [name |-> "Copy Trading",
        subs |-> { <<"/", "c", "o", "p", "y">> }],
       [name |-> "Roundups",
        subs |-> { <<"/", "r", "o", "u", "n", "d", "u", "p">> }],
       [name |-> "AI Chat",
        subs |-> { <<"/", "a", "i">> }],
       [name |-> "News",
        subs |-> { <<"/", "n", "e", "w", "s">> }],
       [name |-> "Webhooks",
        subs |-> { <<"/", "w", "e", "b", "h", "o", "o", "k">> }],
       [name |-> "Admin",
        subs |-> { <<"/", "a", "d", "m", "i", "n">> }] >>

\* the chain from its k-th test on: the name of the first branch whose test
\* holds for the lowercased path, "" when none does
RECURSIVE Chain(_, _)
Chain(path, k) ==
    IF k > Len(CategoryRules) THEN ""
    ELSE IF \E sub \in CategoryRules[k].subs : Contains(path, sub)
         THEN CategoryRules[k].name
         ELSE Chain(path, k + 1)

\* CategoryOf with independent ifs in place of elif: the last test that
\* holds decides
CategoryOf_LastMatch(endpoint) ==
    TheOne({IF hit = {} THEN ""
            ELSE CategoryRules[CHOOSE k \in hit : \A j \in hit : j <= k].name :
               hit \in {{k \in DOMAIN CategoryRules :
                           \E sub \in CategoryRules[k].subs :
                              Contains(Lower(endpoint.path), sub)}}})

\* the branch of the chain an endpoint takes
CategoryOf(endpoint) == Chain(Lower(endpoint.path), 1)

\* NonEmptyGroups without the filter
NonEmptyGroups_KeepAll(gs) == gs

\* "Remove empty groups": the dict comprehension keeps the dict's order
NonEmptyGroups(gs) == SelectSeq(gs, LAMBDA g : g.endpoints # << >>)

\* groups[name] after the loop over self.endpoints, cat[k] being the branch
\* the k-th endpoint takes: the endpoints that branch appends, in their order
GroupList(eps, cat, name) ==
    SelectSeq([k \in 1..Len(eps) |-> IF cat[k] = name THEN << eps[k] >> ELSE << >>],
              LAMBDA e : e # << >>)

\* the dict groups after the loop, as the sequence of its items
Groups19(eps, cat) ==
    [g \in 1..Len(GroupNames) |->
        [name |-> GroupNames[g],
         endpoints |-> Flatten(GroupList(eps, cat, GroupNames[g]))]]

\* the returned dict, as the sequence of its items; cat is bound through a
\* one-element set so that the chain is evaluated once an endpoint
get_grouped_endpoints(eps) ==
    TheOne({NonEmptyGroups(Groups19(eps, cat)) :
               cat \in {[k \in 1..Len(eps) |-> CategoryOf(eps[k])]}})

(***************************************************************************)
(* PostmanCollectionBuilder                                                *)
(***************************************************************************)
\* self.collection as __init__ sets it
InitialCollection ==
    [info |-> [name |-> "RAIL Service API - Auto-Generated",
               description |->
                   "Auto-generated comprehensive API collection for RAIL Platform",
               schema |->
                   "https://schema.getpostman.com/json/collection/v2.1.0/collection.json",
               version |-> "2.0.0"],
     auth |-> [type |-> "bearer",
               bearer |-> << [key |-> "token", value |-> "{{access_token}}",
                              type |-> "string"] >>],
     variable |-> << [key |-> "base_url", value |-> "http://localhost:8080",
                      type |-> "string"],
                     [key |-> "access_token", value |-> "", type |-> "string"],
                     [key |-> "refresh_token", value |-> "", type |-> "string"],
                     [key |-> "user_id", value |-> "", type |-> "string"] >>,
     item |-> << >>]

\* "Load metadata from JSON file": the file's table, {} when there is no file
LoadMetadata(file) == IF file.exists THEN file.json ELSE << >>

\* self.metadata.get(handler_name, {})
MetadataGet(md, handler_name) ==
    IF handler_name \in DOMAIN md THEN md[handler_name] ELSE << >>

\* json.dumps(value, indent=2) of a JSON value: null, or a string of plain
\* characters, which is written between double quotes
JsonDumps(value) ==
    IF value.type = "null" THEN << "null" >> ELSE << "\"", value.text, "\"" >>

\* _format_name: both spellings of the word removed, a space put before every
\* capital letter but the first character, the result stripped
_format_name(name) ==
    TheOne({Strip(Flatten([i \in 1..Len(stripped) |->
                              IF IsUpper(stripped[i]) /\ i > 1
                              THEN << " ", stripped[i] >>
                              ELSE << stripped[i] >>])) :
               stripped \in {Remove(Remove(name, <<"H", "a", "n", "d", "l", "e", "r">>),
                                    <<"h", "a", "n", "d", "l", "e", "r">>)}})

\* endpoint.path if endpoint.path.startswith('/') else '/' + endpoint.path
NormalPath(endpoint) ==
    IF StartsWith(endpoint.path, << "/" >>) THEN endpoint.path
    ELSE << "/" >> \o endpoint.path

\* self._format_name(handler_name or path)
RequestName(endpoint) ==
    _format_name(IF endpoint.handler # << >> THEN endpoint.handler
                 ELSE NormalPath(endpoint))

\* HasBody without the test of the method
HasBody_AnyMethod(endpoint, meta) == "body" \in DOMAIN meta

\* endpoint.method in ['POST', 'PUT', 'PATCH'] and 'body' in metadata
HasBody(endpoint, meta) ==
    endpoint.method \in {"POST", "PUT", "PATCH"} /\ "body" \in DOMAIN meta

\* ResponseCode with 201 for POST alone
ResponseCode_PostOnly(endpoint) == IF endpoint.method = "POST" THEN 201 ELSE 200

\* 200 if endpoint.method == 'GET' else 201
ResponseCode(endpoint) == IF endpoint.method = "GET" THEN 200 ELSE 201

\* the list request['response']
Responses(endpoint, meta) ==
    IF "response" \in DOMAIN meta
    THEN << [name |-> "Success", status |-> "OK", code |-> ResponseCode(endpoint),
             _postman_previewlanguage |-> "json",
             header |-> << [key |-> "Content-Type", value |-> "application/json"] >>,
             body |-> JsonDumps(meta.response)] >>
    ELSE << >>

_create_request(endpoint, md) ==
    LET meta == MetadataGet(md, endpoint.handler)
        path == NormalPath(endpoint)
        req0 == [method |-> endpoint.method,
                 header |-> << >>,
                 url |-> [raw |-> << "{{base_url}}" >> \o path,
                          host |-> << << "{{base_url}}" >> >>,
                          path |-> Split(StripSlashes(path))],
                 description |-> IF "description" \in DOMAIN meta THEN meta.description
                                 ELSE << endpoint.method, " " >> \o path]
        req1 == IF ~endpoint.auth_required
                THEN req0 @@ ("auth" :> [type |-> "noauth"])
                ELSE req0
        req2 == IF HasBody(endpoint, meta)
                THEN [req1 EXCEPT !.header =
                         Append(@, [key |-> "Content-Type", value |-> "application/json"])]
                     @@ ("body" :> [mode |-> "raw", raw |-> JsonDumps(meta.body),
                                    options |-> [raw |-> [language |-> "json"]]])
                ELSE req1
    IN  [name |-> RequestName(endpoint), request |-> req2,
         response |-> Responses(endpoint, meta)]

\* add_folder: one folder appended to collection['item']
add_folder(coll, name, description, eps, md) ==
    [coll EXCEPT !.item =
        Append(@, [name |-> name, description |-> description,
                   item |-> [k \in 1..Len(eps) |-> _create_request(eps[k], md)]])]

\* the icons dict of build; a code point stands for its glyph
icons ==
    ("Health" :> "U+1F3E5") @@
    ("Authentication" :> "U+1F510") @@
    ("Onboarding" :> "U+1F680") @@
    ("Users" :> "U+1F464") @@
    ("Security" :> "U+1F512") @@
    ("Wallets" :> "U+1F4B0") @@
    ("Funding" :> "U+1F4B8") @@
    ("Investment" :> "U+1F4C8") @@
    ("Portfolio" :> "U+1F4CA") @@
    ("Analytics" :> "U+1F4C9") @@
    ("Market" :> "U+1F4B9") @@
    ("Scheduled Investments" :> "U+1F504") @@
    ("Rebalancing" :> "U+2696") @@
    ("Copy Trading" :> "U+1F465") @@
    ("Roundups" :> "U+1FA99") @@
    ("AI Chat" :> "U+1F916") @@
    ("News" :> "U+1F4F0") @@
    ("Webhooks" :> "U+1F514") @@
    ("Admin" :> "U+2699")

\* icons.get(group_name, <the folder glyph>)
IconOf(group_name) ==
    IF group_name \in DOMAIN icons THEN icons[group_name] ELSE "U+1F4C1"

\* the loop of build over grouped_endpoints.items(), from item k on
RECURSIVE AddFolders(_, _, _, _)
AddFolders(coll, gs, md, k) ==
    IF k > Len(gs) THEN coll
    ELSE AddFolders(add_folder(coll, << IconOf(gs[k].name), " ", gs[k].name >>,
                               << gs[k].name, " endpoints" >>, gs[k].endpoints, md),
                    gs, md, k + 1)

\* build: the folders are appended to self.collection, which is returned
build(coll, gs, md) == AddFolders(coll, gs, md, 1)

(***************************************************************************)
(* The inputs: the routes directory, the directory listing, the metadata   *)
(* file.                                                                   *)
(***************************************************************************)
\* bound: the lines of text the .go files of the directory hold together
MaxLines == 2

\* bound: the calls of build on one builder
MaxBuilds == 2

\* router.GET("/health", HealthHandler)
LineHealth ==
    << "r", "o", "u", "t", "e", "r", ".", "G", "E", "T", "(", "\"", "/", "h", "e", "a", "l",
       "t", "h", "\"", ",", " ", "H", "e", "a", "l", "t", "h", "H", "a", "n", "d", "l", "e",
       "r", ")", "\n" >>

\* protected.POST("/api/v1/Auth/wallets", LoginHandler)
LineAuthWallet ==
    << "p", "r", "o", "t", "e", "c", "t", "e", "d", ".", "P", "O", "S", "T", "(", "\"", "/",
       "a", "p", "i", "/", "v", "1", "/", "A", "u", "t", "h", "/", "w", "a", "l", "l", "e",
       "t", "s", "\"", ",", " ", "L", "o", "g", "i", "n", "H", "a", "n", "d", "l", "e", "r",
       ")", "\n" >>

\* api.DELETE("v1/auth/login", LoginHandler)
LineLogin ==
    << "a", "p", "i", ".", "D", "E", "L", "E", "T", "E", "(", "\"", "v", "1", "/", "a", "u",
       "t", "h", "/", "l", "o", "g", "i", "n", "\"", ",", " ", "L", "o", "g", "i", "n", "H",
       "a", "n", "d", "l", "e", "r", ")", "\n" >>

\* api.GET("/metrics", h.Metrics)
LineMetrics ==
    << "a", "p", "i", ".", "G", "E", "T", "(", "\"", "/", "m", "e", "t", "r", "i", "c", "s",
       "\"", ",", " ", "h", ".", "M", "e", "t", "r", "i", "c", "s", ")", "\n" >>

\* // NoAuth routes
LineNoAuth ==
    << "/", "/", " ", "N", "o", "A", "u", "t", "h", " ", "r", "o", "u", "t", "e", "s", "\n" >>

\* r.PUT("/admin/news", NewsHandler)
LineNotes ==
    << "r", ".", "P", "U", "T", "(", "\"", "/", "a", "d", "m", "i", "n", "/", "n", "e", "w",
       "s", "\"", ",", " ", "N", "e", "w", "s", "H", "a", "n", "d", "l", "e", "r", ")", "\n" >>

Lines == {LineHealth, LineAuthWallet, LineLogin, LineMetrics, LineNoAuth}

\* the file names auth.go, routes.go and NOTES.md
AuthGo == <<"a", "u", "t", "h", ".", "g", "o">>
RoutesGo == <<"r", "o", "u", "t", "e", "s", ".", "g", "o">>
NotesMd == <<"N", "O", "T", "E", "S", ".", "m", "d">>

FileNames == {AuthGo, RoutesGo, NotesMd}

SeqsUpTo(S, n) == UNION {[1..k -> S] : k \in 0..n}

\* the directories: two .go files of lines of Lines, and one file that is not
\* a .go file
Directories ==
    {(AuthGo :> Flatten(ta)) @@ (RoutesGo :> Flatten(tb)) @@ (NotesMd :> LineNotes) :
        <<ta, tb>> \in {tt \in SeqsUpTo(Lines, MaxLines) \X SeqsUpTo(Lines, MaxLines) :
                           Len(tt[1]) + Len(tt[2]) <= MaxLines}}

\* extract_from_file for every text a file of a directory can hold.  TLC
\* evaluates a constant once, so each text is scanned once and not once a state.
FileEndpoints ==
    [content \in {dir[name] : dir \in Directories, name \in FileNames} |->
        extract_from_file(content)]

\* extract_all: the files of the listing that end in .go, in the listing's order
extract_all(dir, names) ==
    Flatten([k \in 1..Len(names) |->
                IF EndsWith(names[k], <<".", "g", "o">>)
                THEN FileEndpoints[dir[names[k]]]
                ELSE << >>])

\* os.listdir: the names of the directory "in arbitrary order"
Listings ==
    {ns \in [1..Cardinality(FileNames) -> FileNames] :
        \A a, b \in DOMAIN ns : a # b => ns[a] # ns[b]}

\* the handler names LoginHandler, HealthHandler
LoginHandler == <<"L", "o", "g", "i", "n", "H", "a", "n", "d", "l", "e", "r">>
HealthHandler == <<"H", "e", "a", "l", "t", "h", "H", "a", "n", "d", "l", "e", "r">>

\* a metadata table: LoginHandler with all three keys, HealthHandler with a
\* response only
MetadataTable ==
    (LoginHandler :> [description |-> << "Log in" >>,
                      body |-> [type |-> "string", text |-> "ok"],
                      response |-> [type |-> "null"]]) @@
    (HealthHandler :> [response |-> [type |-> "string", text |-> "ok"]])

MetadataFiles == {[exists |-> FALSE, json |-> << >>], [exists |-> TRUE, json |-> MetadataTable]}

(***************************************************************************)
(* The pipeline of generate.py main(), run twice over the same directory   *)
(* and metadata file, each run with a fresh extractor and a fresh builder. *)
(* extract_all, get_grouped_endpoints and build may be called again before *)
(* the caller goes on; save follows one call of build, as in main().       *)
(***************************************************************************)
Init ==
    /\ routes_dir \in Directories
    /\ metadata_file \in MetadataFiles
    /\ listing \in Listings
    /\ endpoints = << >>
    /\ grouped = << >>
    /\ collection = InitialCollection
    /\ metadata = LoadMetadata(metadata_file)
    /\ pc = "start"
    /\ builds = 0
    /\ outputs = << >>
    /\ arg = << >>
    /\ ret = << >>

\* endpoints = extractor.extract_all()
ExtractAll ==
    /\ pc \in {"start", "extracted"}
    /\ endpoints' = extract_all(routes_dir, listing)
    /\ pc' = "extracted"
    /\ UNCHANGED << routes_dir, metadata_file, listing, grouped, collection, metadata,
                    builds, outputs, arg, ret >>

\* grouped = extractor.get_grouped_endpoints()
GetGroupedEndpoints ==
    /\ pc \in {"extracted", "grouped"}
    /\ grouped' = get_grouped_endpoints(endpoints)
    /\ pc' = "grouped"
    /\ UNCHANGED << routes_dir, metadata_file, listing, endpoints, collection, metadata,
                    builds, outputs, arg, ret >>

\* collection = builder.build(grouped)
Build ==
    /\ pc \in {"grouped", "built"}
    /\ builds < MaxBuilds
    /\ collection' = build(collection, grouped, metadata)
    /\ builds' = builds + 1
    /\ pc' = "built"
    /\ UNCHANGED << routes_dir, metadata_file, listing, endpoints, grouped, metadata,
                    outputs, arg, ret >>

\* builder.save(output_file), after the one build of main()
Save ==
    /\ pc = "built"
    /\ builds = 1
    /\ outputs' = Append(outputs, collection)
    /\ pc' = "saved"
    /\ UNCHANGED << routes_dir, metadata_file, listing, endpoints, grouped, collection,
                    metadata, builds, arg, ret >>

\* the second run: EndpointExtractor(routes_dir), PostmanCollectionBuilder(),
\* and whatever order os.listdir gives this time
NewRun ==
    /\ pc = "saved"
    /\ Len(outputs) = 1
    /\ listing' \in Listings
    /\ endpoints' = << >>
    /\ grouped' = << >>
    /\ collection' = InitialCollection
    /\ metadata' = LoadMetadata(metadata_file)
    /\ builds' = 0
    /\ pc' = "start"
    /\ UNCHANGED << routes_dir, metadata_file, outputs, arg, ret >>

Next == ExtractAll \/ GetGroupedEndpoints \/ Build \/ Save \/ NewRun

Spec == Init /\ [][Next]_vars

(***************************************************************************)
(* Direct calls of the methods on inputs a caller may construct:           *)
(* extract_from_file on a text, _create_request on an Endpoint (whose      *)
(* handler may be empty), _format_name on a name and on its own result.    *)
(* None of the three changes the object it is called on, so each behaviour *)
(* makes one call from the state after construction.                       *)
(***************************************************************************)
\* bound: the length of the names of NameAlphabet given to _format_name
MaxNameLen == 2

\* the handler name GetUserProfileHandler, which no metadata table holds
GetUserProfileHandler ==
    << "G", "e", "t", "U", "s", "e", "r", "P", "r", "o", "f", "i", "l", "e", "H", "a", "n",
       "d", "l", "e", "r" >>

\* the paths /Users/:userId, webhooks/stripe and /health
PathUserId == <<"/", "U", "s", "e", "r", "s", "/", ":", "u", "s", "e", "r", "I", "d">>
PathStripe == <<"w", "e", "b", "h", "o", "o", "k", "s", "/", "s", "t", "r", "i", "p", "e">>
PathHealth == <<"/", "h", "e", "a", "l", "t", "h">>

Methods == {"GET", "POST", "PUT", "PATCH", "DELETE"}

EndpointsIn ==
    [method : Methods,
     path : {PathUserId, PathStripe, PathHealth},
     handler : {<< >>, LoginHandler, HealthHandler, GetUserProfileHandler},
     auth_required : BOOLEAN,
     description : {<< >>},
     group : {<< "r" >>}]

\* a second metadata table: a body that is null for LoginHandler, and an entry
\* under the empty key
MetadataTable2 ==
    (LoginHandler :> [body |-> [type |-> "null"]]) @@
    (<< >> :> [description |-> << "root" >>,
               body |-> [type |-> "string", text |-> "ok"],
               response |-> [type |-> "string", text |-> "ok"]])

MetadataFilesIn == MetadataFiles \cup {[exists |-> TRUE, json |-> MetadataTable2]}

NameAlphabet == {"a", "B", " "}

\* the names given to _format_name: some handler names, and every name of
\* NameAlphabet up to MaxNameLen
NamesIn ==
    {GetUserProfileHandler, LoginHandler,
     <<"h", "a", "n", "d", "l", "e", "r", "H", "a", "n", "d", "l", "e", "r">>}
    \cup SeqsUpTo(NameAlphabet, MaxNameLen)

InitCalls ==
    /\ routes_dir = << >>
    /\ metadata_file \in MetadataFilesIn
    /\ listing = << >>
    /\ endpoints = << >>
    /\ grouped = << >>
    /\ collection = InitialCollection
    /\ metadata = LoadMetadata(metadata_file)
    /\ pc = "start"
    /\ builds = 0
    /\ outputs = << >>
    /\ arg = << >>
    /\ ret = << >>

\* ret = extractor.extract_from_file(filepath), arg the text of the file
ExtractFromFile ==
    /\ pc = "start"
    /\ \E content \in DOMAIN FileEndpoints :
          /\ arg' = content
          /\ ret' = extract_from_file(content)
    /\ pc' = "extract_from_file"
    /\ UNCHANGED << routes_dir, metadata_file, listing, endpoints, grouped, collection,
                    metadata, builds, outputs >>

\* ret = builder._create_request(arg)
CreateRequest ==
    /\ pc = "start"
    /\ \E endpoint \in EndpointsIn :
          /\ arg' = endpoint
          /\ ret' = _create_request(endpoint, metadata)
    /\ pc' = "_create_request"
    /\ UNCHANGED << routes_dir, metadata_file, listing, endpoints, grouped, collection,
                    metadata, builds, outputs >>

\* ret = builder._format_name(arg)
FormatName ==
    /\ pc = "start"
    /\ \E name \in NamesIn :
          /\ arg' = name
          /\ ret' = _format_name(name)
    /\ pc' = "_format_name"
    /\ UNCHANGED << routes_dir, metadata_file, listing, endpoints, grouped, collection,
                    metadata, builds, outputs >>

\* ret = builder._format_name(ret): the result formatted again
FormatNameAgain ==
    /\ pc = "_format_name"
    /\ arg' = ret
    /\ ret' = _format_name(ret)
    /\ pc' = "_format_name again"
    /\ UNCHANGED << routes_dir, metadata_file, listing, endpoints, grouped, collection,
                    metadata, builds, outputs >>

NextCalls == ExtractFromFile \/ CreateRequest \/ FormatName \/ FormatNameAgain

SpecCalls == InitCalls /\ [][NextCalls]_vars

(***************************************************************************)
(* The claims.                                                             *)
(***************************************************************************)
Range(f) == {f[k] : k \in DOMAIN f}

\* how often x occurs in the sequence q
Count(x, q) == Cardinality({k \in DOMAIN q : q[k] = x})

\* the list the mapping gs holds under name, empty when name is no key of gs
ListOf(gs, name) ==
    IF \E g \in DOMAIN gs : gs[g].name = name
    THEN gs[CHOOSE g \in DOMAIN gs : gs[g].name = name].endpoints
    ELSE << >>

\* whether grouped is what get_grouped_endpoints returned for endpoints
GroupedIsCurrent == pc \in {"grouped", "built", "saved"}

\* the priority order of the categories, as C1 gives it
C1_Order ==
    << "Health", "Authentication", "Onboarding", "Users", "Security", "Wallets", "Funding",
       "Investment", "Portfolio", "Analytics", "Market", "Scheduled Investments",
       "Rebalancing", "Copy Trading", "Roundups", "AI Chat", "News", "Webhooks", "Admin" >>

\* the categories one of whose substrings the lowercased path contains
C1_Matching(path) ==
    {r.name : r \in {q \in Range(CategoryRules) :
                        \E sub \in q.subs : Contains(path, sub)}}

\* the first of them in the priority order, "" when there is none
C1_First(path) ==
    TheOne({IF m = {} THEN ""
            ELSE C1_Order[Least({k \in DOMAIN C1_Order : C1_Order[k] \in m})] :
               m \in {C1_Matching(path)}})

\* C1: after extract_all, get_grouped_endpoints puts every endpoint whose
\* lowercased path contains a category substring into exactly one category
\* list, as often as extract_all returned it, and that category is the first
\* matching one in the priority order Health, Authentication, ..., Admin; an
\* endpoint whose path matches none is in no list.  The keys of the mapping
\* are distinct category names.
C1_CategoryExclusive ==
    GroupedIsCurrent =>
        /\ \A g, h \in DOMAIN grouped :
              /\ grouped[g].name \in Range(C1_Order)
              /\ grouped[g].name = grouped[h].name => g = h
        /\ \A e \in Range(endpoints) :
              \A first \in {C1_First(Lower(e.path))} :
                 \A c \in Range(C1_Order) :
                    Count(e, ListOf(grouped, c)) =
                        IF c = first THEN Count(e, endpoints) ELSE 0

\* C1's case: one endpoint whose path matches two categories has been placed,
\* and one whose path matches none has been left out
C1_Witness ==
    /\ pc = "grouped"
    /\ \E e \in Range(endpoints) :
          /\ Cardinality(C1_Matching(Lower(e.path))) >= 2
          /\ \E g \in DOMAIN grouped : Count(e, grouped[g].endpoints) = 1
    /\ \E e \in Range(endpoints) : C1_Matching(Lower(e.path)) = {}

\* C2: the request item _create_request builds has a 'body' field in its
\* request exactly when the endpoint's method is POST, PUT or PATCH and the
\* metadata entry of the endpoint's handler holds a 'body' key.
C2_BodyRule ==
    pc = "_create_request" =>
        ("body" \in DOMAIN ret.request
            <=> /\ arg.method \in {"POST", "PUT", "PATCH"}
                /\ arg.handler \in DOMAIN metadata
                /\ "body" \in DOMAIN metadata[arg.handler])

\* C2's case: a request item that was given a body
C2_Witness == pc = "_create_request" /\ "body" \in DOMAIN ret.request

\* C3: an endpoint extract_from_file extracts from a text has auth_required
\* false exactly when the text contains "noauth" (whatever the case of its
\* letters) and the endpoint's receiver does not contain "protected"
\* (whatever the case); otherwise auth_required is true.
C3_AuthHeuristic ==
    pc = "extract_from_file" =>
        \A k \in DOMAIN ret :
            ret[k].auth_required =
                ~(/\ Contains(Lower(arg), <<"n", "o", "a", "u", "t", "h">>)
                  /\ ~Contains(Lower(ret[k].group),
                               <<"p", "r", "o", "t", "e", "c", "t", "e", "d">>))

\* C3's case: a text that contains "noauth" gave an endpoint that needs no auth
C3_Witness ==
    /\ pc = "extract_from_file"
    /\ Contains(Lower(arg), <<"n", "o", "a", "u", "t", "h">>)
    /\ \E k \in DOMAIN ret : ~ret[k].auth_required

\* C4: two runs of extract_all, get_grouped_endpoints, build, each on a fresh
\* extractor and builder, over the same files and the same metadata write the
\* same document, whatever order the directory listing gives each run.
C4_Deterministic == Len(outputs) = 2 => outputs[1] = outputs[2]

\* C5: _format_name of "GetUserProfileHandler" is "Get User Profile", and
\* formatting a formatted name again returns it unchanged.
C5_Idempotent ==
    /\ pc = "_format_name" /\ arg = GetUserProfileHandler =>
          ret = <<"G", "e", "t", " ", "U", "s", "e", "r", " ", "P", "r", "o", "f", "i",
                  "l", "e">>
    /\ pc = "_format_name again" => ret = arg

\* the names of the request items of a document, folder after folder
RequestNames(doc) ==
    Flatten([f \in DOMAIN doc.item |->
                [r \in DOMAIN doc.item[f].item |-> doc.item[f].item[r].name]])

\* C6: in the document build returns, no two request items carry the same
\* name.
C6_UniqueNames ==
    pc = "built" /\ builds = 1 =>
        \A a, b \in DOMAIN RequestNames(collection) :
            RequestNames(collection)[a] = RequestNames(collection)[b] => a = b

\* C7: every key of the mapping get_grouped_endpoints returns has a non-empty
\* endpoint list, and every folder of the document built from the mapping
\* holds at least one request item.
C7_NoEmptyFolder ==
    /\ GroupedIsCurrent => \A g \in DOMAIN grouped : grouped[g].endpoints # << >>
    /\ \A f \in DOMAIN collection.item : collection.item[f].item # << >>

\* C7's case: a document was built in which some categories have a folder and
\* the others, which got no endpoint, have none
C7_Witness ==
    /\ pc = "built"
    /\ Len(collection.item) >= 1
    /\ Len(collection.item) < Len(GroupNames)

\* C8: a second call of build on the same builder with the same mapping
\* returns the document the first call returned, and extract_all and
\* get_grouped_endpoints called again on unchanged inputs return what they
\* returned before.
C8_Idempotent ==
    [][/\ pc = "built" /\ pc' = "built" => collection' = collection
       /\ pc = "extracted" /\ pc' = "extracted" => endpoints' = endpoints
       /\ pc = "grouped" /\ pc' = "grouped" => grouped' = grouped]_vars

\* C9: the request item _create_request builds carries one example response
\* when the metadata entry of the endpoint's handler holds a 'response' key and
\* none otherwise; the example's code is 200 for GET and 201 for every other
\* method.
C9_ExampleResponse ==
    pc = "_create_request" =>
        /\ Len(ret.response) =
              IF /\ arg.handler \in DOMAIN metadata
                 /\ "response" \in DOMAIN metadata[arg.handler]
              THEN 1 ELSE 0
        /\ \A k \in DOMAIN ret.response :
              ret.response[k].code = IF arg.method = "GET" THEN 200 ELSE 201

\* C9's case: a request item of a method other than GET with its example
C9_Witness ==
    /\ pc = "_create_request"
    /\ arg.method # "GET"
    /\ Len(ret.response) = 1

\* C10: the request item of an endpoint whose handler is empty is named by the
\* endpoint's raw path, unchanged.
C10_RawPathName == pc = "_create_request" /\ arg.handler = << >> => ret.name = arg.path

\* the five methods a declaration X.METHOD("path", handler) may name
C11_Methods ==
    {[verb |-> <<"G", "E", "T">>, method |-> "GET"],
     [verb |-> <<"P", "O", "S", "T">>, method |-> "POST"],
     [verb |-> <<"P", "U", "T">>, method |-> "PUT"],
     [verb |-> <<"P", "A", "T", "C", "H">>, method |-> "PATCH"],
     [verb |-> <<"D", "E", "L", "E", "T", "E">>, method |-> "DELETE"]}

\* whether s[a..b-1] is a bare identifier standing on its own: word characters,
\* the first no digit, no word character before or after
C11_Identifier(s, a, b) ==
    /\ a < b
    /\ b <= Len(s) + 1
    /\ \A k \in a..(b - 1) : IsWord(s[k])
    /\ s[a] \notin DigitChars
    /\ a = 1 \/ ~IsWord(s[a - 1])
    /\ b > Len(s) \/ ~IsWord(s[b])

\* whether a declaration of method m begins at position i of the text s: the
\* identifier X, then .METHOD(", then the path up to its closing quote, then a
\* comma and a space, then the identifier handler, then )
C11_DeclaredAt(s, m, i) ==
    /\ IsWord(s[i])
    /\ LET x == WordRun(s, i)
           p == x + Len(m.verb) + 3
           q == NoQuoteRun(s, p)
           h == WordRun(s, q + 3)
       IN  /\ C11_Identifier(s, i, x)
           /\ StartsAt(s, << "." >> \o m.verb \o << "(", "\"" >>, x)
           /\ q > p
           /\ StartsAt(s, << "\"", ",", " " >>, q)
           /\ C11_Identifier(s, q + 3, h)
           /\ StartsAt(s, << ")" >>, h)

\* the declaration that begins there
C11_DeclarationAt(s, m, i) ==
    LET x == WordRun(s, i)
        p == x + Len(m.verb) + 3
        q == NoQuoteRun(s, p)
        h == WordRun(s, q + 3)
    IN  [at |-> i, method |-> m.method, group |-> SubSeq(s, i, x - 1),
         path |-> SubSeq(s, p, q - 1), handler |-> SubSeq(s, q + 3, h - 1)]

\* the declarations X.METHOD("path", handler) written in the text s, each with
\* the position it begins at
C11_Declarations(s) ==
    {C11_DeclarationAt(s, im[2], im[1]) :
        im \in {t \in (1..Len(s)) \X C11_Methods : C11_DeclaredAt(s, t[2], t[1])}}

\* the declarations of every text a file of a directory can hold
C11_Declared ==
    [content \in {dir[name] : dir \in Directories, name \in FileNames} |->
        C11_Declarations(content)]

\* the declarations of the files of a directory, each with its file's name
C11_InDirectory(dir) ==
    UNION {{<<name, d>> : d \in C11_Declared[dir[name]]} : name \in DOMAIN dir}

\* whether the endpoint e is the one the declaration d declares
C11_Declares(d, e) ==
    /\ e.method = d.method
    /\ e.path = d.path
    /\ e.handler = d.handler
    /\ e.group = d.group

\* C11: for every file of the routes directory and every declaration
\* X.METHOD("path", handler) in its text (METHOD one of GET, POST, PUT, PATCH,
\* DELETE, X and handler bare identifiers, path a non-empty quoted literal),
\* the list extract_all returned holds an Endpoint with that method, path and
\* handler and with group X, as many of them as the files hold declarations of
\* it, whatever the order of the listing.
C11_Complete ==
    pc = "extracted" =>
        \A name \in DOMAIN routes_dir :
            \A d \in C11_Declared[routes_dir[name]] :
                Cardinality({k \in DOMAIN endpoints : C11_Declares(d, endpoints[k])}) >=
                    Cardinality({nc \in C11_InDirectory(routes_dir) : C11_Declares(d, nc[2])})

====
